---- MODULE Spec2Model ----
(***************************************************************************)
(* Model of lasif/components/query.py (QueryComponent) and of the parts of *)
(* lasif/components/project.py it depends on (component setup through the  *)
(* communicator, Project.get_project_function).                            *)
(*                                                                         *)
(* Spec        : one call of get_all_stations_for_event on a communicator  *)
(*               in which every component the resolver uses is bound (the  *)
(*               query_comm fixture of the doctest).                       *)
(* SpecProject : a Project session: the constructor registers the          *)
(*               components in the order of __setup_components, after      *)
(*               which get_project_function and the resolver are called.   *)
(***************************************************************************)
EXTENDS Integers, Sequences, FiniteSets, TLC

VARIABLES
    registry,                  \* communicator: names bound so far, in registration order
    project_pc,                \* position inside Project.__init__
    project_function_cache,    \* Project.__project_function_cache (keys)
    fn_type,                   \* argument of the last get_project_function call
    fn_result,                 \* outcome of the last get_project_function call
    pc,                        \* position inside get_all_stations_for_event
    event_name,                \* argument of the call
    event,                     \* local: event
    waveform_metadata,         \* local: waveform_metadata
    station_coordinates,       \* local: station_coordinates
    inventory_coordinates,     \* local: inventory_coordinates
    stations,                  \* local: stations (the result)
    idx,                       \* position of the for loop in waveform_metadata
    source,                    \* history: which branch put each station in the result
    calls,                     \* history: provider calls made, in order
    raised                     \* exception that ended the call, "none" otherwise

vars == <<registry, project_pc, project_function_cache, fn_type, fn_result,
          pc, event_name, event, waveform_metadata, station_coordinates,
          inventory_coordinates, stations, idx, source, calls, raised>>

projectVars == <<registry, project_pc, project_function_cache, fn_type, fn_result>>
queryVars == <<pc, event_name, event, waveform_metadata, station_coordinates,
               inventory_coordinates, stations, idx, source, calls, raised>>

----------------------------------------------------------------------------
(* Bounds and input domains *)

MaxWaveforms == 2

\* Python's None, kept apart from every latitude (-90..90)
None == -999

Networks == {"NET"}
StationNames == {"STA", "STB"}

\* channel identities network.station.location.channel of the raw data
ChannelIds == {"NET.STA..BHZ", "NET.STA..BHE", "NET.STB..BHZ"}

ChannelStation(channel_id) ==
    IF channel_id = "NET.STB..BHZ" THEN "STB" ELSE "STA"

StatLatitudes == {None, 10}
WaveformLatitudes == {None, 5}
InventoryLatitudes == {None, 0, 7}
LiveLatitudes == {None, 0, 8}

EventsKnown == {"E1"}
EventNames == {"E1", "RandomEvent"}

\* a coordinate record {latitude, longitude, elevation_in_m, local_depth_in_m}
CoordinateRecord(lat) ==
    [latitude |-> lat, longitude |-> 28, elevation_in_m |-> 170,
     local_depth_in_m |-> 0]

CoordinateFields == {"latitude", "longitude", "elevation_in_m", "local_depth_in_m"}

\* a waveform metadata entry: channel information plus the (optional)
\* coordinates embedded in the waveform file
WaveformEntry(channel_id, lat) ==
    [network |-> "NET", station |-> ChannelStation(channel_id),
     channel_id |-> channel_id, latitude |-> lat, longitude |-> 28,
     elevation_in_m |-> 170, local_depth_in_m |-> 0]

WaveformEntries ==
    {WaveformEntry(c, lat) : c \in ChannelIds, lat \in WaveformLatitudes}

WaveformLists ==
    UNION {[1..n -> WaveformEntries] : n \in 0..MaxWaveforms}

StationIds == {n \o "." \o s : n \in Networks, s \in StationNames}

ChannelTables ==
    UNION {[D -> {CoordinateRecord(lat) : lat \in StatLatitudes}] :
              D \in SUBSET ChannelIds}

InventorySnapshots ==
    UNION {[D -> {CoordinateRecord(lat) : lat \in InventoryLatitudes}] :
              D \in SUBSET StationIds}

LiveRecords == {CoordinateRecord(lat) : lat \in LiveLatitudes}

NoEvent == [origin_time |-> None]
EmptyDict == <<>>

----------------------------------------------------------------------------
(* Communicator *)

Bound(name, reg) == \E i \in 1..Len(reg) : reg[i] = name

\* communicator of the doctest fixture query_comm
FixtureRegistry == <<"events", "waveforms", "stations", "inventory_db", "query">>

----------------------------------------------------------------------------
(* get_all_stations_for_event: the loop body *)

\* station_id = "%s.%s" % (waveform["network"], waveform["station"])
StationId(waveform) == waveform.network \o "." \o waveform.station

AlreadyInResult_never(station_id, result) == FALSE

\* if station_id in stations: continue
AlreadyInResult(station_id, result) == station_id \in DOMAIN result

\* outcome of a dictionary lookup that raised KeyError
KeyError == [KeyError |-> TRUE]

StationFileLookup_default(stat_table, channel_id) ==
    IF channel_id \in DOMAIN stat_table
    THEN stat_table[channel_id]
    ELSE CoordinateRecord(None)

\* try: stat_coords = station_coordinates[waveform["channel_id"]]
\* except KeyError: continue
StationFileLookup(stat_table, channel_id) ==
    IF channel_id \in DOMAIN stat_table THEN stat_table[channel_id] ELSE KeyError

\* x is not None
IsNotNone(x) == x # None

FromWaveform_statTest(waveform, stat_coords) == IsNotNone(stat_coords.latitude)

\* elif waveform["latitude"] is not None:
FromWaveform(waveform, stat_coords) == IsNotNone(waveform.latitude)

InSnapshot_resolvedOnly(station_id, inv_snapshot) ==
    /\ station_id \in DOMAIN inv_snapshot
    /\ IsNotNone(inv_snapshot[station_id].latitude)

\* elif station_id in inventory_coordinates:
InSnapshot(station_id, inv_snapshot) == station_id \in DOMAIN inv_snapshot

\* if coords["latitude"]: (truth value of a float or of None)
Truthy(x) == x # None /\ x # 0

\* stations[station_id] = value
DictSet(d, key, value) ==
    [k \in DOMAIN d \cup {key} |-> IF k = key THEN value ELSE d[k]]

\* One iteration of the for loop over waveform_metadata.  coords_live is what
\* inventory_db.get_coordinates returns if the iteration gets to call it.
\* The result names the branch taken, the new value of stations and whether
\* get_coordinates was called.
ProcessWaveform(waveform, result, stat_table, inv_snapshot, coords_live) ==
    LET station_id == StationId(waveform)
        stat_coords == StationFileLookup(stat_table, waveform.channel_id)
        skip(b, q) == [branch |-> b, stations |-> result, queried |-> q]
        put(b, v, q) == [branch |-> b, stations |-> DictSet(result, station_id, v),
                         queried |-> q]
    IN  IF AlreadyInResult(station_id, result)
        THEN skip("seen", FALSE)
        ELSE IF stat_coords = KeyError
        THEN skip("no_station_file", FALSE)
        ELSE IF IsNotNone(stat_coords.latitude)
        THEN put("station_file", stat_coords, FALSE)
        ELSE IF FromWaveform(waveform, stat_coords)
        THEN put("waveform", waveform, FALSE)
        ELSE IF InSnapshot(station_id, inv_snapshot)
        THEN IF Truthy(inv_snapshot[station_id].latitude)
             THEN put("inventory", inv_snapshot[station_id], FALSE)
             ELSE skip("inventory_negative", FALSE)
        ELSE IF Truthy(coords_live.latitude)
             THEN put("live", coords_live, TRUE)
             ELSE skip("live_failed", TRUE)

----------------------------------------------------------------------------
(* get_all_stations_for_event: the call, statement by statement *)

\* component the statement at pc retrieves through self.comm
Needs(p) ==
    CASE p = "events_get" -> "events"
      [] p = "get_metadata_raw" -> "waveforms"
      [] p = "get_all_channels_at_time" -> "stations"
      [] p = "get_all_coordinates" -> "inventory_db"
      [] OTHER -> "inventory_db"

CallSteps == {"events_get", "get_metadata_raw", "get_all_channels_at_time",
              "get_all_coordinates", "loop"}

\* events.get(event_name) finds the event, or raises LASIFNotFoundError
EventsComponentGet(name) == name \in EventsKnown

\* entry of the call history
ProviderCall(method, arg) == [method |-> method, arg |-> arg]

AfterEventsGet_caught(found) == "get_metadata_raw"

\* where the call continues after events.get: an exception of events.get
\* is not caught and ends the call
AfterEventsGet(found) == IF found THEN "get_metadata_raw" ELSE "raised"

\* comm.query.get_all_stations_for_event(event_name)
Call ==
    /\ pc = "idle"
    /\ Bound("query", registry)
    /\ project_pc = "ready"
    /\ \E name \in EventNames : event_name' = name
    /\ pc' = "events_get"
    /\ UNCHANGED <<event, waveform_metadata, station_coordinates,
                   inventory_coordinates, stations, idx, source, calls, raised>>
    /\ UNCHANGED projectVars

\* self.comm.<name> for a name that is not bound
UnboundComponent ==
    /\ pc \in CallSteps
    /\ ~Bound(Needs(pc), registry)
    /\ pc' = "raised"
    /\ raised' = "comm.get:NotFoundError"
    /\ UNCHANGED <<event_name, event, waveform_metadata, station_coordinates,
                   inventory_coordinates, stations, idx, source, calls>>
    /\ UNCHANGED projectVars

\* event = self.comm.events.get(event_name)
EventsGet ==
    /\ pc = "events_get"
    /\ Bound(Needs(pc), registry)
    /\ calls' = Append(calls, ProviderCall("events.get", event_name))
    /\ LET found == EventsComponentGet(event_name)
       IN  /\ pc' = AfterEventsGet(found)
           /\ event' = IF found THEN [origin_time |-> 0] ELSE event
           /\ raised' = IF found THEN raised ELSE "events.get:LASIFNotFoundError"
    /\ UNCHANGED <<event_name, waveform_metadata, station_coordinates,
                   inventory_coordinates, stations, idx, source>>
    /\ UNCHANGED projectVars

\* waveform_metadata = self.comm.waveforms.get_metadata_raw(event_name)
GetMetadataRaw ==
    /\ pc = "get_metadata_raw"
    /\ Bound(Needs(pc), registry)
    /\ calls' = Append(calls, ProviderCall("waveforms.get_metadata_raw", event_name))
    /\ \E listing \in WaveformLists : waveform_metadata' = listing
    /\ pc' = "get_all_channels_at_time"
    /\ UNCHANGED <<event_name, event, station_coordinates,
                   inventory_coordinates, stations, idx, source, raised>>
    /\ UNCHANGED projectVars

\* station_coordinates = self.comm.stations.get_all_channels_at_time(
\*     event["origin_time"])
GetAllChannelsAtTime ==
    /\ pc = "get_all_channels_at_time"
    /\ Bound(Needs(pc), registry)
    /\ calls' = Append(calls, ProviderCall("stations.get_all_channels_at_time",
                                           event.origin_time))
    /\ \E table \in ChannelTables : station_coordinates' = table
    /\ pc' = "get_all_coordinates"
    /\ UNCHANGED <<event_name, event, waveform_metadata,
                   inventory_coordinates, stations, idx, source, raised>>
    /\ UNCHANGED projectVars

\* inventory_coordinates = self.comm.inventory_db.get_all_coordinates()
\* stations = {}
GetAllCoordinates ==
    /\ pc = "get_all_coordinates"
    /\ Bound(Needs(pc), registry)
    /\ calls' = Append(calls, ProviderCall("inventory_db.get_all_coordinates", ""))
    /\ \E snapshot \in InventorySnapshots : inventory_coordinates' = snapshot
    /\ stations' = EmptyDict
    /\ source' = EmptyDict
    /\ idx' = 1
    /\ pc' = "loop"
    /\ UNCHANGED <<event_name, event, waveform_metadata, station_coordinates,
                   raised>>
    /\ UNCHANGED projectVars

\* for waveform in waveform_metadata: ...
LoopStep ==
    /\ pc = "loop"
    /\ idx <= Len(waveform_metadata)
    /\ Bound(Needs(pc), registry)
    /\ \E coords_live \in LiveRecords :
         LET waveform == waveform_metadata[idx]
             station_id == StationId(waveform)
             out == ProcessWaveform(waveform, stations, station_coordinates,
                                    inventory_coordinates, coords_live)
         IN  /\ stations' = out.stations
             /\ source' = IF out.stations # stations
                          THEN DictSet(source, station_id,
                                       [branch |-> out.branch, at |-> idx])
                          ELSE source
             /\ calls' = IF out.queried
                         THEN Append(calls,
                                     [method |-> "inventory_db.get_coordinates",
                                      arg |-> station_id,
                                      latitude |-> coords_live.latitude])
                         ELSE calls
    /\ idx' = idx + 1
    /\ UNCHANGED <<pc, event_name, event, waveform_metadata, station_coordinates,
                   inventory_coordinates, raised>>
    /\ UNCHANGED projectVars

\* return stations
Return ==
    /\ pc = "loop"
    /\ idx > Len(waveform_metadata)
    /\ pc' = "returned"
    /\ UNCHANGED <<event_name, event, waveform_metadata, station_coordinates,
                   inventory_coordinates, stations, idx, source, calls, raised>>
    /\ UNCHANGED projectVars

----------------------------------------------------------------------------
(* Specification of one resolver call on the fixture communicator *)

QueryInit ==
    /\ pc = "idle"
    /\ event_name = "E1"
    /\ event = NoEvent
    /\ waveform_metadata = <<>>
    /\ station_coordinates = EmptyDict
    /\ inventory_coordinates = EmptyDict
    /\ stations = EmptyDict
    /\ idx = 1
    /\ source = EmptyDict
    /\ calls = <<>>
    /\ raised = "none"

Init ==
    /\ registry = FixtureRegistry
    /\ project_pc = "ready"
    /\ project_function_cache = {}
    /\ fn_type = "none"
    /\ fn_result = "not_called"
    /\ QueryInit

Next ==
    \/ Call
    \/ EventsGet
    \/ GetMetadataRaw
    \/ GetAllChannelsAtTime
    \/ GetAllCoordinates
    \/ LoopStep
    \/ Return

Spec == Init /\ [][Next]_vars

----------------------------------------------------------------------------
(* Project: constructor and get_project_function *)

\* names passed to the communicator by Project.__init__ ("project") and then
\* by __setup_components, in program order
SetupOrder ==
    <<"project", "events", "waveforms", "kernels", "iterations", "query",
      "visualizations", "actions", "validator", "wins_and_adj_sources",
      "downloads">>

\* Component.__init__: communicator.register(component_name, self)
Register(reg, name) == Append(reg, name)

\* one component constructor of Project.__init__ / __setup_components
SetupComponent ==
    /\ project_pc = "setup"
    /\ Len(registry) < Len(SetupOrder)
    /\ ~Bound(SetupOrder[Len(registry) + 1], registry)
    /\ registry' = Register(registry, SetupOrder[Len(registry) + 1])
    /\ UNCHANGED <<project_pc, project_function_cache, fn_type, fn_result>>
    /\ UNCHANGED queryVars

\* the rest of Project.__init__: self.__project_function_cache = {}
FinishInit ==
    /\ project_pc = "setup"
    /\ Len(registry) = Len(SetupOrder)
    /\ project_function_cache' = {}
    /\ project_pc' = "ready"
    /\ UNCHANGED <<registry, fn_type, fn_result>>
    /\ UNCHANGED queryVars

\* keys of fct_type_map
FctTypeMapKeys ==
    {"window_picking_function", "preprocessing_function", "process_synthetics",
     "source_time_function"}

\* arguments get_project_function is called with
FctTypes == FctTypeMapKeys \cup {"no_such_function"}

\* what get_project_function finds at FUNCTIONS/<fct_type>.py
FileStates == {"missing", "no_attribute", "not_callable", "function"}

\* Python's "a in b" for two strings of FctTypes: b contains a as a substring
\* (no element of FctTypes is a proper substring of another)
StrIn(a, b) == a = b

\* the test of the guard before the file lookup:  fct_type not in fct_type
UnknownTypeTest(fct_type) == ~StrIn(fct_type, fct_type)

\* outcome of get_project_function(fct_type) when the file is in state file
ProjectFunctionOutcome(fct_type, cache, file) ==
    IF fct_type \in cache THEN "returned_cached"
    ELSE IF UnknownTypeTest(fct_type) THEN "LASIFNotFoundError"
    ELSE IF fct_type \notin FctTypeMapKeys THEN "KeyError"
    ELSE IF file = "missing" THEN "LASIFNotFoundError"
    ELSE IF file = "no_attribute" THEN "LASIFNotFoundError"
    ELSE IF file = "not_callable" THEN "LASIFError"
    ELSE "returned"

\* Project.get_project_function(fct_type)
GetProjectFunction ==
    /\ project_pc = "ready"
    /\ \E fct_type \in FctTypes, file \in FileStates :
         LET outcome == ProjectFunctionOutcome(fct_type, project_function_cache, file)
         IN  /\ fn_type' = fct_type
             /\ fn_result' = outcome
             /\ project_function_cache' =
                    IF outcome = "returned"
                    THEN project_function_cache \cup {fct_type}
                    ELSE project_function_cache
    /\ UNCHANGED <<registry, project_pc>>
    /\ UNCHANGED queryVars

----------------------------------------------------------------------------
(* Specification of a Project session *)

InitProject ==
    /\ registry = <<>>
    /\ project_pc = "setup"
    /\ project_function_cache = {}
    /\ fn_type = "none"
    /\ fn_result = "not_called"
    /\ QueryInit

NextProject ==
    \/ SetupComponent
    \/ FinishInit
    \/ GetProjectFunction
    \/ Call
    \/ EventsGet
    \/ GetMetadataRaw
    \/ UnboundComponent

SpecProject == InitProject /\ [][NextProject]_vars

----------------------------------------------------------------------------
(* Vocabulary of the properties *)

Loaded == pc \in {"loop", "returned"}
Returned == pc = "returned"

\* positions of the waveform entries of station s
EntriesOf(s) ==
    {i \in 1..Len(waveform_metadata) : StationId(waveform_metadata[i]) = s}

\* entry i has a station file for its channel; its record
HasFile(i) == waveform_metadata[i].channel_id \in DOMAIN station_coordinates
StatOf(i) == station_coordinates[waveform_metadata[i].channel_id]

\* entry i has a station file with null latitude and no embedded latitude
NeedsInventory(i) ==
    /\ HasFile(i)
    /\ StatOf(i).latitude = None
    /\ waveform_metadata[i].latitude = None

\* invocations of inventory_db.get_coordinates in the call history
CoordinateQueries ==
    {i \in 1..Len(calls) : calls[i].method = "inventory_db.get_coordinates"}
QueryCount(s) == Cardinality({i \in CoordinateQueries : calls[i].arg = s})

Tier1Records(s) ==
    {StatOf(i) : i \in {j \in EntriesOf(s) :
                           HasFile(j) /\ StatOf(j).latitude # None}}

\* entry i of station s is resolved by the station file, the embedded
\* coordinates or the inventory snapshot
SnapshotAccepts(s) ==
    s \in DOMAIN inventory_coordinates /\ Truthy(inventory_coordinates[s].latitude)
Accepts(i, s) ==
    /\ HasFile(i)
    /\ \/ StatOf(i).latitude # None
       \/ waveform_metadata[i].latitude # None
       \/ SnapshotAccepts(s)

FirstWithFile(s) ==
    {i \in EntriesOf(s) : HasFile(i) /\ \A j \in EntriesOf(s) : HasFile(j) => i <= j}

----------------------------------------------------------------------------
(* C1 *)

\* C1 as stated: the returned entry of a station is the value of the
\* highest-precedence source over ALL channels of the station; if any channel
\* of the station has a station-file record with non-null latitude, the result
\* is such a station-file record, whatever the listing order of the channels
\* and whatever the other sources hold.
C1_HighestTierOverAllChannels ==
    Returned =>
      \A s \in StationIds :
        Tier1Records(s) # {} =>
          s \in DOMAIN stations /\ stations[s] \in Tier1Records(s)

\* C1 amended: the result has one entry per station, fixed at the first
\* listed entry of the station (with a station file) at which a source is
\* accepted; the value is chosen by tier precedence among the sources of THAT
\* entry, and later channels never replace it.  If the first entry with a
\* station file has a non-null station-file latitude the result is that
\* record, also when the station is in the inventory snapshot.
C1_FirstSeenPrecedence ==
    Returned =>
      \A s \in StationIds :
        /\ s \in DOMAIN stations =>
             LET k == source[s].at
             IN  /\ k \in EntriesOf(s)
                 /\ HasFile(k)
                 /\ \A j \in EntriesOf(s) : j < k => ~Accepts(j, s)
                 /\ stations[s] =
                      IF StatOf(k).latitude # None THEN StatOf(k)
                      ELSE IF waveform_metadata[k].latitude # None
                      THEN waveform_metadata[k]
                      ELSE IF s \in DOMAIN inventory_coordinates
                      THEN inventory_coordinates[s]
                      ELSE CoordinateRecord(stations[s].latitude)
                 /\ (~Accepts(k, s)) =>
                      \E q \in CoordinateQueries :
                         /\ calls[q].arg = s
                         /\ stations[s] = CoordinateRecord(calls[q].latitude)
        /\ s \notin DOMAIN stations => \A j \in EntriesOf(s) : ~Accepts(j, s)
        /\ \A f \in FirstWithFile(s) :
             StatOf(f).latitude # None =>
               s \in DOMAIN stations /\ stations[s] = StatOf(f)

\* a station whose first channel is resolved from the inventory snapshot
\* while a later channel has a station file with coordinates
C1_Witness ==
    /\ Returned
    /\ \E s \in DOMAIN stations :
         /\ source[s].branch = "inventory"
         /\ \E i, j \in EntriesOf(s) :
              /\ i < j
              /\ NeedsInventory(i)
              /\ HasFile(j)
              /\ StatOf(j).latitude # None

----------------------------------------------------------------------------
(* C2 *)

\* C2 as stated: a station whose only entry has no station file but an
\* embedded latitude is returned with the embedded coordinates (scenario E2).
C2_EmbeddedWithoutStationFile ==
    Returned =>
      \A i \in 1..Len(waveform_metadata) :
        LET s == StationId(waveform_metadata[i])
        IN  (/\ ~HasFile(i)
             /\ waveform_metadata[i].latitude # None
             /\ EntriesOf(s) = {i})
            => (s \in DOMAIN stations /\ stations[s] = waveform_metadata[i])

\* C2 amended: an entry whose channel has a station file with null latitude
\* and which carries an embedded latitude puts its station in the result, with
\* the entry itself as the value when no earlier entry of the station has a
\* station file; a listing whose only entry has no station file (E2) gives
\* the empty mapping.
C2_EmbeddedNeedsStationFile ==
    Loaded =>
      /\ \A i \in 1..(idx - 1) :
           LET s == StationId(waveform_metadata[i])
           IN  (/\ HasFile(i)
                /\ StatOf(i).latitude = None
                /\ waveform_metadata[i].latitude # None)
               => /\ s \in DOMAIN stations
                  /\ (\A j \in EntriesOf(s) : j < i => ~HasFile(j))
                       => stations[s] = waveform_metadata[i]
      /\ (Returned /\ Len(waveform_metadata) = 1 /\ ~HasFile(1))
           => stations = EmptyDict

\* an entry resolved from its embedded coordinates although the station is
\* in the inventory snapshot with coordinates
C2_Witness ==
    /\ Returned
    /\ \E i \in 1..Len(waveform_metadata) :
         LET s == StationId(waveform_metadata[i])
         IN  /\ HasFile(i)
             /\ StatOf(i).latitude = None
             /\ waveform_metadata[i].latitude # None
             /\ SnapshotAccepts(s)
             /\ s \in DOMAIN stations
             /\ stations[s] = waveform_metadata[i]

----------------------------------------------------------------------------
(* C3 *)

\* C3: every station of the result has a waveform entry whose channel is a
\* key of the station-file table; a station none of whose channels has a
\* station file is never in the result.
C3_ResultNeedsStationFile ==
    Loaded =>
      \A s \in DOMAIN stations : \E i \in EntriesOf(s) : HasFile(i)

\* a station left out although it has embedded coordinates and a resolved
\* snapshot entry, because none of its channels has a station file
C3_Witness ==
    /\ Returned
    /\ \E s \in StationIds :
         /\ s \notin DOMAIN stations
         /\ SnapshotAccepts(s)
         /\ EntriesOf(s) # {}
         /\ \A i \in EntriesOf(s) :
              ~HasFile(i) /\ waveform_metadata[i].latitude # None

----------------------------------------------------------------------------
(* C4 *)

\* C4: a station that is in the inventory snapshot with a null latitude is
\* never passed to inventory_db.get_coordinates during the call and is not
\* added to the result from the inventory.
C4_NegativeCacheNotQueried ==
    Loaded =>
      \A s \in DOMAIN inventory_coordinates :
        inventory_coordinates[s].latitude = None =>
          /\ QueryCount(s) = 0
          /\ s \in DOMAIN stations =>
               source[s].branch \notin {"inventory", "live"}

\* a station with a null snapshot entry whose entries all had to fall back
\* to the inventory
C4_Witness ==
    /\ Returned
    /\ \E s \in DOMAIN inventory_coordinates :
         /\ inventory_coordinates[s].latitude = None
         /\ s \notin DOMAIN stations
         /\ \E i \in EntriesOf(s) : NeedsInventory(i)

----------------------------------------------------------------------------
(* C5 *)

\* C5: a call with an event name unknown to events.get ends with the
\* not-found error of events.get, returns no mapping, and calls no provider
\* other than events.get.
C5_UnknownEventFailsFast ==
    (pc \notin {"idle", "events_get"} /\ ~EventsComponentGet(event_name)) =>
      /\ pc = "raised"
      /\ raised = "events.get:LASIFNotFoundError"
      /\ Len(calls) = 1
      /\ calls[1].method = "events.get"
      /\ stations = EmptyDict

C5_Witness ==
    /\ pc = "raised"
    /\ event_name = "RandomEvent"
    /\ Len(calls) = 1

----------------------------------------------------------------------------
(* C6 *)

\* C6: an entry that has to fall back to the inventory resolves its station
\* from the snapshot whenever the snapshot latitude is non-null (0.0
\* included), and a live query that returns a non-null latitude is accepted.
C6_NonNullLatitudeResolves ==
    Returned =>
      /\ \A s \in DOMAIN inventory_coordinates :
           (/\ inventory_coordinates[s].latitude # None
            /\ \E i \in EntriesOf(s) : NeedsInventory(i))
           => s \in DOMAIN stations
      /\ \A q \in CoordinateQueries :
           calls[q].latitude # None => calls[q].arg \in DOMAIN stations

----------------------------------------------------------------------------
(* C7 *)

ResolverComponents == {"events", "waveforms", "stations", "inventory_db"}

\* C7: when "query" is registered every component the resolver retrieves is
\* already registered, every name is bound once, and a call of the resolver
\* never fails on an unbound name.
C7_SourcesRegisteredBeforeQuery ==
    /\ Bound("query", registry) =>
         \A n \in ResolverComponents : Bound(n, registry)
    /\ \A i, j \in 1..Len(registry) : registry[i] = registry[j] => i = j
    /\ raised # "comm.get:NotFoundError"

----------------------------------------------------------------------------
(* C8 *)

\* C8: every value of the result is a coordinate record: its fields are
\* exactly latitude, longitude, elevation_in_m, local_depth_in_m and its
\* latitude is non-null.
C8_ValuesAreCoordinateRecords ==
    Loaded =>
      \A s \in DOMAIN stations :
        /\ DOMAIN stations[s] = CoordinateFields
        /\ stations[s].latitude # None

----------------------------------------------------------------------------
(* C9 *)

----------------------------------------------------------------------------
(* C10 *)

\* C10: a get_project_function call with a type that is neither cached nor a
\* key of the type/filename map fails with LASIFNotFoundError and leaves the
\* function cache unchanged.
C10_UnknownTypeNotFound ==
    [][ (/\ <<fn_type, fn_result>>' # <<fn_type, fn_result>>
         /\ fn_type' \notin project_function_cache
         /\ fn_type' \notin FctTypeMapKeys)
        => (/\ fn_result' = "LASIFNotFoundError"
            /\ project_function_cache' = project_function_cache) ]_vars

====
